---- MODULE Spec2Model ----
(***************************************************************************)
(* QuickDesk front end: the landing page (Index) and the Dashboard page,   *)
(* with the hosted backend they call (auth.getUser, auth.signOut, the      *)
(* "profiles" and "tickets" queries) as an environment that answers each   *)
(* pending call.                                                           *)
(*                                                                         *)
(* An async function runs synchronously up to its first await; each await  *)
(* is a suspension point, and what follows it up to the next await (or the *)
(* end) is one atomic step taken when the awaited call settles.            *)
(*                                                                         *)
(* Backend calls settle in one of three ways:                              *)
(*   - fulfilled with { data, error: null };                               *)
(*   - fulfilled with an error result { data: null-ish, error };           *)
(*   - rejected (the auth calls rethrow every error that is not an auth    *)
(*     error; the query builder, used without throwOnError(), converts     *)
(*     every failure into an error result and is never rejected).          *)
(***************************************************************************)
EXTENDS Integers, Sequences, FiniteSets, TLC

VARIABLES
    route,      \* the router's current location
    idxPc,      \* Index: position of the effect's checkUser
    idxUser,    \* Index: checkUser's local `user`
    user,       \* Dashboard: useState user
    profile,    \* Dashboard: useState profile
    tickets,    \* Dashboard: useState tickets
    loading,    \* Dashboard: useState loading
    cuPc,       \* Dashboard: position of checkUser
    cuUser,     \* Dashboard: checkUser's local `user`
    cuProfile,  \* Dashboard: checkUser's local `profile`
    ftPc,       \* Dashboard: position of fetchTickets
    ftData,     \* Dashboard: fetchTickets's local `data`
    logout,     \* Dashboard: position of each handleLogout invocation
    log,        \* observable effects in order: requests, navigations, toasts
    firstDone   \* history: which of checkUser / fetchTickets ended first

vars == <<route, idxPc, idxUser, user, profile, tickets, loading,
          cuPc, cuUser, cuProfile, ftPc, ftData, logout, log, firstDone>>

idxVars  == <<idxPc, idxUser>>
dashState == <<user, profile, tickets, loading>>
cuVars   == <<cuPc, cuUser, cuProfile>>
ftVars   == <<ftPc, ftData>>

----------------------------------------------------------------------------
(* Bounds and program constants *)

\* longest ticket description the backend returns
MaxDescLen == 103
\* most handleLogout invocations started by repeated clicks
MaxLogout == 1

\* .limit(5)
Limit == 5
\* substring(0, 100)
TruncLen == 100

\* null / undefined of an object-valued expression; Some(v) is the value v
NULL == <<>>
Some(v) == <<v>>
Val(o) == o[1]

\* null of the `error` field, whose values are names
NoError == "null"

Min(a, b) == IF a <= b THEN a ELSE b
Max(a, b) == IF a >= b THEN a ELSE b

----------------------------------------------------------------------------
(* Data *)

Roles == {"user", "agent", "admin"}

Statuses == <<"open", "in_progress", "resolved", "closed", "archived">>

Users == {[id |-> "u1"], [id |-> "u2"]}

\* A text of n characters (character codes), different for different k.
Text(n, k) == [i \in 1..n |-> 97 + ((i + k) % 26)]

\* The literal "..." of the row template.
Ellipsis == <<46, 46, 46>>

----------------------------------------------------------------------------
(* The backend's possible answers *)

\* supabase.auth.getUser(): a user, or no user with the auth error that says why
GetUserResults ==
    {[data |-> [user |-> Some(u)], error |-> NoError] : u \in Users}
    \cup {[data |-> [user |-> NULL], error |-> e] :
            e \in {"AuthSessionMissingError", "AuthRetryableFetchError"}}

\* from("profiles").select("*").eq("id", id).single(): the row, or an error result
\* (no row matches, or the request failed)
ProfileResults(id) ==
    {[data |-> Some([id |-> id, name |-> "n", role |-> r]), error |-> NoError] : r \in Roles}
    \cup {[data |-> NULL, error |-> e] : e \in {"PGRST116", "FetchError"}}

\* Lengths of the first description: empty, short, around the cut, longest.
DescLens == {0, 1, TruncLen \div 2, TruncLen - 1, TruncLen, TruncLen + 1, MaxDescLen}

\* The n most recent tickets, newest first; the first description has len characters.
TicketRows(n, len) ==
    [k \in 1..n |->
        [id          |-> k,
         subject     |-> k,
         description |-> Text((len + 37 * (k - 1)) % (MaxDescLen + 1), k),
         status      |-> Statuses[((k - 1) % 5) + 1],
         created_at  |-> Limit + 1 - k,
         upvotes     |-> k - 1,
         categories  |-> IF k % 2 = 0 THEN NULL ELSE Some([name |-> "c"])]]

\* from("tickets").select(...).order("created_at", desc).limit(5)
TicketsResults ==
    {[data |-> Some(TicketRows(n, len)), error |-> NoError] :
        n \in 0..Limit, len \in DescLens}
    \cup {[data |-> NULL, error |-> "FetchError"]}

\* supabase.auth.signOut()
SignOutResults == {[error |-> NoError], [error |-> "AuthError"]}

----------------------------------------------------------------------------
(* Effects *)

Ev(kind, by, what, k) == [kind |-> kind, by |-> by, what |-> what, k |-> k]

Request(by, what, k)  == Ev("request", by, what, k)
Navigate(by, to, k)   == Ev("navigate", by, to, k)
Toast(by, title, k)   == Ev("toast", by, title, k)

----------------------------------------------------------------------------
(* Pure parts of the Dashboard render *)

\* String.prototype.substring(start, end): both indices are clamped to
\* [0, length] and swapped when start > end.
Substring(s, start, end) ==
    LET a == Min(Max(start, 0), Len(s))
        b == Min(Max(end, 0), Len(s))
    IN  SubSeq(s, Min(a, b) + 1, Max(a, b))

\* Mutant: the ellipsis only when something was cut.
RenderDescriptionEllipsisIfCut(description) ==
    IF Len(description) > TruncLen
    THEN Substring(description, 0, TruncLen) \o Ellipsis
    ELSE description

\* {ticket.description.substring(0, 100)}...
RenderDescription(description) == Substring(description, 0, TruncLen) \o Ellipsis

getStatusColor(status) ==
    CASE status = "open"        -> "bg-red-100 text-red-800"
      [] status = "in_progress" -> "bg-yellow-100 text-yellow-800"
      [] status = "resolved"    -> "bg-green-100 text-green-800"
      [] status = "closed"      -> "bg-gray-100 text-gray-800"
      [] OTHER                  -> "bg-gray-100 text-gray-800"

\* profile?.role
RoleOf(p) == IF p = NULL THEN "undefined" ELSE Val(p).role

\* Mutant: the tile for admins only.
AdminTileAdminOnly(p) == RoleOf(p) = "admin"

\* (profile?.role === 'admin' || profile?.role === 'agent') && <Card .../>
AdminTile(p) == RoleOf(p) = "admin" \/ RoleOf(p) = "agent"

\* Mutant: the branches of the ticket section swapped.
EmptyStateInverted(ts) == Len(ts) # 0

\* tickets.length === 0 ? <p>No tickets found...</p> : <div>rows</div>
EmptyState(ts) == Len(ts) = 0

TicketRow(t) ==
    [key         |-> t.id,
     subject     |-> t.subject,
     description |-> RenderDescription(t.description),
     badge       |-> getStatusColor(t.status),
     status      |-> t.status,
     category    |-> IF t.categories # NULL THEN Some(Val(t.categories).name) ELSE NULL,
     upvotes     |-> t.upvotes]

TicketRowsOf(ts) == IF EmptyState(ts) THEN <<>> ELSE [k \in 1..Len(ts) |-> TicketRow(ts[k])]

\* What the Dashboard component returns for its current state.
View ==
    IF loading
    THEN [screen       |-> "loading",
          role         |-> "undefined",
          logoutButton |-> FALSE,
          adminTile    |-> FALSE,
          emptyState   |-> FALSE,
          rows         |-> <<>>]
    ELSE [screen       |-> "dashboard",
          role         |-> RoleOf(profile),
          logoutButton |-> TRUE,
          adminTile    |-> AdminTile(profile),
          emptyState   |-> EmptyState(tickets),
          rows         |-> TicketRowsOf(tickets)]

\* data || []
OrEmpty(data) == IF data = NULL THEN <<>> ELSE Val(data)

----------------------------------------------------------------------------
(* Initial state: the router shows one of the two pages; no effect has run. *)

Init ==
    /\ route \in {"/", "/dashboard"}
    /\ idxPc = "unmounted"
    /\ idxUser = NULL
    /\ user = NULL
    /\ profile = NULL
    /\ tickets = <<>>
    /\ loading = TRUE
    /\ cuPc = "unmounted"
    /\ cuUser = NULL
    /\ cuProfile = NULL
    /\ ftPc = "unmounted"
    /\ ftData = NULL
    /\ logout = <<>>
    /\ log = <<>>
    /\ firstDone = "none"

----------------------------------------------------------------------------
\* firstDone once `who` has ended
Ended(who) == IF firstDone = "none" THEN who ELSE firstDone

(* Index *)

\* useEffect: checkUser() runs to its await of supabase.auth.getUser()
IndexMount ==
    /\ route = "/"
    /\ idxPc = "unmounted"
    /\ idxPc' = "getUser"
    /\ log' = Append(log, Request("Index.checkUser", "auth.getUser", 0))
    /\ UNCHANGED <<route, idxUser, dashState, cuVars, ftVars, logout, firstDone>>

\* Mutant: the landing page's test inverted, if (!user) navigate("/dashboard").
IndexCheckUserResumeInverted(res) ==
    /\ idxPc = "getUser"
    /\ idxPc' = "done"
    /\ idxUser' = res.data.user
    /\ IF res.data.user = NULL
       THEN /\ route' = "/dashboard"
            /\ log' = Append(log, Navigate("Index.checkUser", "/dashboard", 0))
       ELSE /\ route' = route
            /\ log' = log
    /\ UNCHANGED <<dashState, cuVars, ftVars, logout, firstDone>>

\* getUser() fulfilled: if (user) navigate("/dashboard")
IndexCheckUserResume(res) ==
    /\ idxPc = "getUser"
    /\ idxPc' = "done"
    /\ idxUser' = res.data.user
    /\ IF res.data.user # NULL
       THEN /\ route' = "/dashboard"
            /\ log' = Append(log, Navigate("Index.checkUser", "/dashboard", 0))
       ELSE /\ route' = route
            /\ log' = log
    /\ UNCHANGED <<dashState, cuVars, ftVars, logout, firstDone>>

\* getUser() rejected: checkUser's promise rejects, nothing handles it
IndexCheckUserThrow ==
    /\ idxPc = "getUser"
    /\ idxPc' = "rejected"
    /\ UNCHANGED <<route, log, idxUser, dashState, cuVars, ftVars, logout, firstDone>>

\* onClick={() => navigate("/login")} (header and hero buttons)
IndexClickSignIn ==
    /\ route = "/"
    /\ idxPc # "unmounted"
    /\ route' = "/login"
    /\ log' = Append(log, Navigate("Index.SignIn", "/login", 0))
    /\ UNCHANGED <<idxVars, dashState, cuVars, ftVars, logout, firstDone>>

\* onClick={() => navigate("/register")} (header and hero buttons)
IndexClickRegister ==
    /\ route = "/"
    /\ idxPc # "unmounted"
    /\ route' = "/register"
    /\ log' = Append(log, Navigate("Index.Register", "/register", 0))
    /\ UNCHANGED <<idxVars, dashState, cuVars, ftVars, logout, firstDone>>

----------------------------------------------------------------------------
(* Dashboard *)

\* useEffect: checkUser() runs to its await of getUser(), then fetchTickets()
\* runs to its await of the tickets query
DashboardMount ==
    /\ route = "/dashboard"
    /\ cuPc = "unmounted"
    /\ cuPc' = "getUser"
    /\ ftPc' = "tickets"
    /\ log' = log \o <<Request("checkUser", "auth.getUser", 0),
                       Request("fetchTickets", "tickets", 0)>>
    /\ UNCHANGED <<route, idxVars, dashState, cuUser, cuProfile, ftData, logout, firstDone>>

\* Mutant: no `return` after navigate("/login"): the profiles query is issued
\* for a missing user too.
CheckUserResumeNoReturn(res) ==
    /\ cuPc = "getUser"
    /\ cuUser' = res.data.user
    /\ IF res.data.user = NULL
       THEN /\ cuPc' = "redirected"
            /\ route' = "/login"
            /\ user' = user
            /\ log' = log \o <<Navigate("checkUser", "/login", 0),
                               Request("checkUser", "profiles", 0)>>
            /\ firstDone' = Ended("checkUser")
       ELSE /\ cuPc' = "profile"
            /\ route' = route
            /\ user' = res.data.user
            /\ log' = Append(log, Request("checkUser", "profiles", 0))
            /\ firstDone' = firstDone
    /\ UNCHANGED <<idxVars, profile, tickets, loading, cuProfile, ftVars, logout>>

\* Mutant: setLoading(false) next to setUser, before the profiles query.
CheckUserResumeReadyEarly(res) ==
    /\ cuPc = "getUser"
    /\ cuUser' = res.data.user
    /\ IF res.data.user = NULL
       THEN /\ cuPc' = "redirected"
            /\ route' = "/login"
            /\ user' = user
            /\ loading' = loading
            /\ log' = Append(log, Navigate("checkUser", "/login", 0))
            /\ firstDone' = Ended("checkUser")
       ELSE /\ cuPc' = "profile"
            /\ route' = route
            /\ user' = res.data.user
            /\ loading' = FALSE
            /\ log' = Append(log, Request("checkUser", "profiles", 0))
            /\ firstDone' = firstDone
    /\ UNCHANGED <<idxVars, profile, tickets, cuProfile, ftVars, logout>>

\* getUser() fulfilled: redirect without a user; otherwise setUser and run
\* to the await of the profiles query
CheckUserResume(res) ==
    /\ cuPc = "getUser"
    /\ cuUser' = res.data.user
    /\ IF res.data.user = NULL
       THEN /\ cuPc' = "redirected"
            /\ route' = "/login"
            /\ user' = user
            /\ log' = Append(log, Navigate("checkUser", "/login", 0))
            /\ firstDone' = Ended("checkUser")
       ELSE /\ cuPc' = "profile"
            /\ route' = route
            /\ user' = res.data.user
            /\ log' = Append(log, Request("checkUser", "profiles", 0))
            /\ firstDone' = firstDone
    /\ UNCHANGED <<idxVars, profile, tickets, loading, cuProfile, ftVars, logout>>

\* getUser() rejected: checkUser's promise rejects, nothing handles it
CheckUserThrow ==
    /\ cuPc = "getUser"
    /\ cuPc' = "rejected"
    /\ firstDone' = Ended("checkUser")
    /\ UNCHANGED <<route, log, idxVars, dashState, cuUser, cuProfile, ftVars, logout>>

\* the profiles query settled: setProfile(profile); setLoading(false)
CheckUserProfileResume ==
    /\ cuPc = "profile"
    /\ \E res \in ProfileResults(Val(cuUser).id) :
        /\ cuPc' = "done"
        /\ cuProfile' = res.data
        /\ profile' = res.data
        /\ loading' = FALSE
        /\ firstDone' = Ended("checkUser")
        /\ UNCHANGED <<route, log, idxVars, user, tickets, cuUser, ftVars, logout>>

\* Mutant: fetchTickets ends the loading state, setLoading(false) after setTickets.
FetchTicketsResumeSetsReady(res) ==
    /\ ftPc = "tickets"
    /\ ftPc' = "done"
    /\ ftData' = res.data
    /\ tickets' = OrEmpty(res.data)
    /\ loading' = FALSE
    /\ firstDone' = Ended("fetchTickets")
    /\ UNCHANGED <<route, log, idxVars, user, profile, cuVars, logout>>

\* Mutant: fetchTickets keeps its answer only for a page that is already ready.
FetchTicketsResumeIfReady(res) ==
    /\ ftPc = "tickets"
    /\ ftPc' = "done"
    /\ ftData' = res.data
    /\ tickets' = IF loading THEN tickets ELSE OrEmpty(res.data)
    /\ firstDone' = Ended("fetchTickets")
    /\ UNCHANGED <<route, log, idxVars, user, profile, loading, cuVars, logout>>

\* the tickets query settled: setTickets(data || [])
FetchTicketsResume(res) ==
    /\ ftPc = "tickets"
    /\ ftPc' = "done"
    /\ ftData' = res.data
    /\ tickets' = OrEmpty(res.data)
    /\ firstDone' = Ended("fetchTickets")
    /\ UNCHANGED <<route, log, idxVars, user, profile, loading, cuVars, logout>>

\* Logout button: handleLogout() runs to its await of supabase.auth.signOut()
HandleLogout ==
    /\ route = "/dashboard"
    /\ View.logoutButton
    /\ Len(logout) < MaxLogout
    /\ logout' = Append(logout, "signOut")
    /\ log' = Append(log, Request("handleLogout", "auth.signOut", Len(logout) + 1))
    /\ UNCHANGED <<route, idxVars, dashState, cuVars, ftVars, firstDone>>

\* signOut() fulfilled (with or without an error): navigate("/login"); toast(...)
HandleLogoutResume(k, res) ==
    /\ k \in 1..Len(logout)
    /\ logout[k] = "signOut"
    /\ logout' = [logout EXCEPT ![k] = IF res.error = NoError THEN "done" ELSE "doneWithError"]
    /\ route' = "/login"
    /\ log' = log \o <<Navigate("handleLogout", "/login", k),
                       Toast("handleLogout", "Logged out", k)>>
    /\ UNCHANGED <<idxVars, dashState, cuVars, ftVars, firstDone>>

\* signOut() rejected: handleLogout's promise rejects, nothing handles it
HandleLogoutThrow(k) ==
    /\ k \in 1..Len(logout)
    /\ logout[k] = "signOut"
    /\ logout' = [logout EXCEPT ![k] = "rejected"]
    /\ UNCHANGED <<route, log, idxVars, dashState, cuVars, ftVars, firstDone>>

\* a quick-action tile or a ticket row: onClick={() => navigate(to)}
DashboardClick(by, to) ==
    /\ route = "/dashboard"
    /\ View.screen = "dashboard"
    /\ route' = to
    /\ log' = Append(log, Navigate(by, to, 0))
    /\ UNCHANGED <<idxVars, dashState, cuVars, ftVars, logout, firstDone>>

ClickCreateTicket == DashboardClick("CreateTicket", "/tickets/new")

ClickViewTickets == DashboardClick("ViewTickets", "/tickets")

ClickAdminPanel == View.adminTile /\ DashboardClick("AdminPanel", "/admin")

ClickTicketRow(k) ==
    /\ k \in 1..Len(View.rows)
    /\ DashboardClick("TicketRow", <<"/tickets/", View.rows[k].key>>)

----------------------------------------------------------------------------

Next ==
    \/ IndexMount
    \/ \E res \in GetUserResults : IndexCheckUserResume(res)
    \/ IndexCheckUserThrow
    \/ IndexClickSignIn
    \/ IndexClickRegister
    \/ DashboardMount
    \/ \E res \in GetUserResults : CheckUserResume(res)
    \/ CheckUserThrow
    \/ CheckUserProfileResume
    \/ \E res \in TicketsResults : FetchTicketsResume(res)
    \/ HandleLogout
    \/ \E k \in 1..MaxLogout, res \in SignOutResults : HandleLogoutResume(k, res)
    \/ \E k \in 1..MaxLogout : HandleLogoutThrow(k)
    \/ ClickCreateTicket
    \/ ClickViewTickets
    \/ ClickAdminPanel
    \/ \E k \in 1..Limit : ClickTicketRow(k)

Spec == Init /\ [][Next]_vars

----------------------------------------------------------------------------
(* Reading the log *)

Has(ev) == \E i \in DOMAIN log : log[i] = ev

Pos(ev) == CHOOSE i \in DOMAIN log : log[i] = ev

Requests(l) == SelectSeq(l, LAMBDA e : e.kind = "request")

AutoNavigated == \E i \in DOMAIN log : log[i].kind = "navigate" /\ log[i].by = "Index.checkUser"

IndexClicked ==
    \E i \in DOMAIN log : log[i].kind = "navigate" /\ log[i].by \in {"Index.SignIn", "Index.Register"}

Ready == ~loading

----------------------------------------------------------------------------
(* C1: once the Dashboard's session resolution has yielded no user, the    *)
(* navigation to /login has happened and the page still shows its loading  *)
(* screen, with no ticket row and no empty-state message, whether the      *)
(* tickets query settled before or after.                                  *)
C1_NoSessionNeverReady ==
    cuPc = "redirected" =>
        /\ cuUser = NULL
        /\ Has(Navigate("checkUser", "/login", 0))
        /\ route = "/login"
        /\ loading
        /\ View.screen = "loading"
        /\ View.rows = <<>>
        /\ ~View.emptyState

\* no user, and the tickets query has answered with rows
C1_Witness ==
    /\ cuPc = "redirected"
    /\ ftPc = "done"
    /\ tickets # <<>>

(* C2: from the step in which the Dashboard's session resolution returns   *)
(* no user onwards, no backend request is issued: the log's requests stay  *)
(* the two the mount issued before (getUser and the tickets query).        *)
C2_NoRequestAfterNoSession ==
    [][cuPc' = "redirected" =>
          /\ Requests(log') = Requests(log)
          /\ ~Has(Request("checkUser", "profiles", 0))']_vars

\* no user, with the tickets query (issued at mount) still answered afterwards
C2_Witness ==
    /\ cuPc = "redirected"
    /\ ftPc = "done"
    /\ firstDone = "checkUser"

(* C3: the Dashboard is ready exactly when checkUser has found a user and  *)
(* its profiles query has settled; ready never turns back into loading;    *)
(* and a ready page whose tickets query is still pending shows the         *)
(* empty-state message and no rows.                                        *)
C3_LoadingThenReady ==
    /\ [](Ready <=> cuPc = "done")
    /\ [](cuPc = "done" => cuUser # NULL /\ user = cuUser /\ profile = cuProfile)
    /\ [](Ready /\ ftPc = "tickets" =>
            /\ View.screen = "dashboard"
            /\ View.emptyState
            /\ View.rows = <<>>)
    /\ [][Ready => Ready']_vars

\* ready while the tickets query is still pending
C3_Witness ==
    /\ Ready
    /\ ftPc = "tickets"
    /\ View.emptyState

(* C4 (as claimed): every failure of the Dashboard's session lookup, an    *)
(* error result or a rejected call, ends in the navigation to /login.      *)
C4_FailureRedirects ==
    (cuPc \in {"redirected", "rejected"}) =>
        /\ Has(Navigate("checkUser", "/login", 0))
        /\ route = "/login"

(* C5: on a ready Dashboard the admin tile is rendered exactly when the    *)
(* profile exists and its role is admin or agent; when the profiles query  *)
(* gave no row or failed the page is ready all the same, without the tile. *)
C5_AdminTileByRole ==
    /\ Ready =>
        (View.adminTile <=> (profile # NULL /\ Val(profile).role \in {"admin", "agent"}))
    /\ (cuPc = "done" /\ cuProfile = NULL) =>
        /\ Ready
        /\ View.screen = "dashboard"
        /\ ~View.adminTile
    /\ (route = "/dashboard" /\ Ready) => (ENABLED ClickAdminPanel <=> View.adminTile)

\* ready with an agent's profile: the tile is there
C5_Witness ==
    /\ Ready
    /\ profile # NULL
    /\ Val(profile).role = "agent"
    /\ View.adminTile

(* C6: on a ready Dashboard whose tickets query returned no rows or failed *)
(* the held list is empty, the empty-state message is rendered and no row  *)
(* is; rows are rendered only for a non-empty held list, one per ticket.   *)
C6_EmptyState ==
    /\ (Ready /\ ftPc = "done" /\ (ftData = NULL \/ ftData = Some(<<>>))) =>
        /\ tickets = <<>>
        /\ View.emptyState
        /\ View.rows = <<>>
    /\ Ready => (View.emptyState <=> tickets = <<>>)
    /\ View.rows # <<>> => (tickets # <<>> /\ Len(View.rows) = Len(tickets) /\ ~View.emptyState)

\* ready after the tickets query failed
C6_Witness ==
    /\ Ready
    /\ ftPc = "done"
    /\ ftData = NULL
    /\ View.emptyState

(* C7 (as claimed): each sign-out issues signOut first, navigates to       *)
(* /login and then shows the toast only once that call has ended, and does *)
(* both however the call ended.                                            *)
C7_LogoutAlwaysRedirects ==
    \A k \in 1..Len(logout) :
        /\ Has(Request("handleLogout", "auth.signOut", k))
        /\ Has(Navigate("handleLogout", "/login", k)) =>
            /\ logout[k] # "signOut"
            /\ Has(Toast("handleLogout", "Logged out", k))
            /\ Pos(Request("handleLogout", "auth.signOut", k))
                 < Pos(Navigate("handleLogout", "/login", k))
            /\ Pos(Navigate("handleLogout", "/login", k))
                 < Pos(Toast("handleLogout", "Logged out", k))
        /\ logout[k] # "signOut" =>
            /\ Has(Navigate("handleLogout", "/login", k))
            /\ Has(Toast("handleLogout", "Logged out", k))

(* C8: the Index page's check navigates to /dashboard exactly when it      *)
(* found a user; without one nothing navigates unless a button is clicked  *)
(* and the page stays; the buttons are usable while the check is pending.  *)
C8_LandingRedirectsIffSession ==
    /\ AutoNavigated <=> (idxPc = "done" /\ idxUser # NULL)
    /\ AutoNavigated => Has(Navigate("Index.checkUser", "/dashboard", 0))
    /\ (idxPc \in {"getUser", "done"} /\ idxUser = NULL /\ ~IndexClicked) => route = "/"
    /\ (route = "/" /\ idxPc = "getUser") =>
        (ENABLED IndexClickSignIn /\ ENABLED IndexClickRegister)

\* the check found no user: still on the landing page
C8_Witness ==
    /\ idxPc = "done"
    /\ idxUser = NULL
    /\ route = "/"
    /\ log = <<Request("Index.checkUser", "auth.getUser", 0)>>

(* C9: with a user present, what the Dashboard holds depends only on how   *)
(* far each of checkUser and fetchTickets has got and on its own answer,   *)
(* never on which ended first; neither waits for the other; so once both   *)
(* have ended the page is ready with that profile and those tickets.       *)
C9_OrderIndependent ==
    /\ cuPc \in {"profile", "done"} =>
        /\ user = cuUser
        /\ profile = (IF cuPc = "done" THEN cuProfile ELSE NULL)
        /\ loading = (cuPc # "done")
        /\ tickets = (IF ftPc = "done" THEN OrEmpty(ftData) ELSE <<>>)
    /\ (cuPc = "done" /\ ftPc = "done") =>
        /\ View.screen = "dashboard"
        /\ View.role = RoleOf(cuProfile)
        /\ Len(View.rows) = Len(OrEmpty(ftData))
    /\ ftPc = "tickets" => ENABLED (\E res \in TicketsResults : FetchTicketsResume(res))
    /\ cuPc = "profile" => ENABLED CheckUserProfileResume

\* both ended, the tickets query first, with a profile and tickets to show
C9_Witness ==
    /\ cuPc = "done"
    /\ ftPc = "done"
    /\ firstDone = "fetchTickets"
    /\ profile # NULL
    /\ tickets # <<>>

(* C10: every rendered row shows the first min(100, length) characters of  *)
(* its ticket's description followed by "...", also for an empty and for a *)
(* short description.                                                      *)
C10_TruncatedDescription ==
    Ready =>
        /\ Len(View.rows) = Len(tickets)
        /\ \A k \in 1..Len(tickets) :
            LET d == tickets[k].description
                r == View.rows[k].description
                m == IF Len(d) < 100 THEN Len(d) ELSE 100
            IN  /\ Len(r) = m + 3
                /\ \A i \in 1..m : r[i] = d[i]
                /\ \A j \in 1..3 : r[m + j] = 46

\* a description of exactly 50 characters is shown whole, with the ellipsis
C10_Witness ==
    /\ Ready
    /\ Len(tickets) > 0
    /\ Len(tickets[1].description) = 50
    /\ View.rows[1].description = tickets[1].description \o <<46, 46, 46>>

====
